---- MODULE Spec2Model ----
(***************************************************************************)
(* A model of timer.py, a command-line countdown timer: parse_time turns a *)
(* duration string into seconds, countdown waits that long while printing  *)
(* the remaining time, play_sound_macos then plays a sound repeat_count    *)
(* times; the script's top level catches ValueError, KeyboardInterrupt and *)
(* Exception.                                                              *)
(*                                                                         *)
(* A string is a sequence of one-character strings.  Time is counted in    *)
(* units of 1/Res second; diff is end_time minus the last clock reading.   *)
(* The output stream is taken to be writable: print never raises; with    *)
(* that, nothing reaches the top level's except Exception clause.  The      *)
(* command line holds exactly one argument, which is no option: argparse    *)
(* accepts it as the duration.                                              *)
(***************************************************************************)
EXTENDS Integers, Sequences, FiniteSets

VARIABLES
    pc,             \* the statement the script is at
    time_str,       \* args.duration
    parsed,         \* "none" | "ok" | "invalid": how parse_time ended
    total_seconds,  \* parse_time's return value
    outcome,        \* state of the countdown loop: "None" | "Running" | "Complete" | "Cancelled"
    diff,           \* end_time - time.time() at the last clock reading, in units
    remaining,      \* countdown's local `remaining`
    display,        \* the last time_str rendered by countdown
    idx,            \* play_sound_macos's loop variable i
    attempts,       \* calls of subprocess.run made so far
    in_progress,    \* calls of subprocess.run that have not returned
    failed_at,      \* 0, or the number of the first attempt that failed
    fail_kind,      \* how that attempt failed
    interrupts,     \* KeyboardInterrupts delivered so far
    printed,        \* the messages printed so far
    raised,         \* the exception the top-level handler is handling
    exit_code,      \* the process's exit status, -1 while it runs
    fault           \* the process ended in an unhandled exception

vars == <<pc, time_str, parsed, total_seconds, outcome, diff, remaining, display,
          idx, attempts, in_progress, failed_at, fail_kind, interrupts, printed,
          raised, exit_code, fault>>

(***************************************************************************)
(* Bounds of the model.                                                    *)
(***************************************************************************)
\* the longest duration string enumerated exhaustively
MaxLen == 3
\* clock units per second
Res == 4
\* clock readings are kept within MaxNear units of the start or of end_time
MaxNear == 5
\* with an ideal clock, the units an iteration's own work may take
MaxLag == 1

(***************************************************************************)
(* Program constants.                                                      *)
(***************************************************************************)
RepeatCount == 10

Min(a, b) == IF a <= b THEN a ELSE b

(***************************************************************************)
(* Strings.                                                                *)
(***************************************************************************)
DigitChars == {"0", "1", "2", "3", "4", "5", "6", "7", "8", "9"}

\* the characters of the exhaustively enumerated duration strings
Alphabet == {"0", "1", "h", "m", "s", "x", " ", "\n"}

RECURSIVE StringsOfLen(_)
StringsOfLen(n) ==
    IF n = 0 THEN {<< >>}
    ELSE {Append(s, c) : s \in StringsOfLen(n - 1), c \in Alphabet}

\* the duration strings the documentation and the usage text name, and a few more
Examples ==
    { <<"1", "h", "3", "0", "m", "1", "0", "s">>,
      <<"9", "0", "m">>,
      <<"1", "8", "0", "s">>,
      <<"2", "h">>,
      <<"1", "h", "3", "0", "m">>,
      <<"8", "m">>,
      <<"2", "5", "h">>,
      <<"1", "0", "0", "h">>,
      <<"a", "b", "c">>,
      <<"3", "0", "x">>,
      <<"0", "h", "0", "m", "0", "s">>,
      <<"3", "0", "m", "1", "h">>,
      <<"1", "h", " ", "5", "m">>,
      <<"1", ":", "3", "0">>,
      <<"0", "0", "7", "s">>,
      <<"5", "s", "\n">> }

Inputs == UNION {StringsOfLen(n) : n \in 0..MaxLen} \cup Examples

\* short valid durations, for the runs that follow every second of the countdown
IdealInputs ==
    {<<d, "s">> : d \in DigitChars \ {"0"}} \cup {<<"1", "2", "s">>, <<"1", "m">>}

(***************************************************************************)
(* parse_time                                                              *)
(***************************************************************************)
\* int() of one decimal digit
DigitVal(c) ==
    CASE c = "0" -> 0 [] c = "1" -> 1 [] c = "2" -> 2 [] c = "3" -> 3
      [] c = "4" -> 4 [] c = "5" -> 5 [] c = "6" -> 6 [] c = "7" -> 7
      [] c = "8" -> 8 [] c = "9" -> 9

\* \d
IsDigit(c) == c \in DigitChars

\* \d+ is greedy: the first position at or after pos that holds no digit
DigitsEnd(str, pos) ==
    CHOOSE j \in pos..(Len(str) + 1) :
        /\ j = Len(str) + 1 \/ ~IsDigit(str[j])
        /\ \A k \in pos..(j - 1) : IsDigit(str[k])

\* ((?P<name>\d+)suffix)? at pos: the digits captured (<< >> for a group that
\* did not take part) and the position after the group.  The character after a
\* run of digits decides: no shorter run and no later group can match there.
MatchPart(str, pos, suffix) ==
    LET j == DigitsEnd(str, pos)
    IN  IF j > pos /\ j <= Len(str) /\ str[j] = suffix
        THEN [digits |-> SubSeq(str, pos, j - 1), next |-> j + 1]
        ELSE [digits |-> << >>, next |-> pos]

\* $ matches at the end of the string and just before a newline that ends it
AtDollar(str, pos) ==
    \/ pos = Len(str) + 1
    \/ pos = Len(str) /\ str[pos] = "\n"

\* re.match(r'^((?P<hours>\d+)h)?((?P<minutes>\d+)m)?((?P<seconds>\d+)s)?$', str)
ReMatch(str) ==
    LET h == MatchPart(str, 1, "h")
        m == MatchPart(str, h.next, "m")
        s == MatchPart(str, m.next, "s")
    IN  [matched |-> AtDollar(str, s.next),
         group0  |-> SubSeq(str, 1, s.next - 1),
         hours   |-> h.digits,
         minutes |-> m.digits,
         seconds |-> s.digits]

\* int(digits)
RECURSIVE IntOf(_)
IntOf(digits) ==
    IF digits = << >> THEN 0
    ELSE 10 * IntOf(SubSeq(digits, 1, Len(digits) - 1)) + DigitVal(digits[Len(digits)])

\* int(time_parts.get(name) or 0)
IntOrZero(digits) == IF digits = << >> THEN 0 ELSE IntOf(digits)

\* a slip: the hours weighted like the minutes
TotalOfHoursAsMinutes(hours, minutes, seconds) == hours * 60 + minutes * 60 + seconds

\* total_seconds as lines 32-34 add it up
TotalOf(hours, minutes, seconds) == hours * 3600 + minutes * 60 + seconds

\* parse_time(time_str): the value returned, or the ValueError raised
ParseTime(str) ==
    LET match   == ReMatch(str)
        hours   == IntOrZero(match.hours)
        minutes == IntOrZero(match.minutes)
        seconds == IntOrZero(match.seconds)
        total   == TotalOf(hours, minutes, seconds)
    IN  IF ~match.matched \/ match.group0 = << >>
        THEN [ok |-> FALSE, value |-> 0, error |-> "Invalid time format"]
        ELSE IF total <= 0
        THEN IF hours = 0 /\ minutes = 0 /\ seconds = 0
             THEN [ok |-> FALSE, value |-> 0, error |-> "No time units found"]
             ELSE [ok |-> FALSE, value |-> 0, error |-> "Total duration must be positive"]
        ELSE [ok |-> TRUE, value |-> total, error |-> ""]

(***************************************************************************)
(* countdown                                                               *)
(***************************************************************************)
\* a slip: math.floor in place of round
RoundFloor(d) == d \div Res

\* round(d / Res): Python rounds to the nearest integer, a tie to the even one
Round(d) ==
    LET q == d \div Res
        r == d % Res
    IN  IF 2 * r < Res THEN q
        ELSE IF 2 * r > Res THEN q + 1
        ELSE IF q % 2 = 0 THEN q ELSE q + 1

\* a slip: the loop left one second early
TimeUpOffByOne(r) == r <= 1

\* if remaining <= 0
TimeUp(r) == r <= 0

\* a slip: the hours wrapped at a day
HoursRemWrapped(r) == (r \div 3600) % 24

HoursRem(r) == r \div 3600

MinsRem(r) == (r % 3600) \div 60

SecsRem(r) == r % 60

DigitChr(d) == <<"0", "1", "2", "3", "4", "5", "6", "7", "8", "9">>[d + 1]

\* str(n) for n >= 0
RECURSIVE ToDigits(_)
ToDigits(n) ==
    IF n < 10 THEN <<DigitChr(n)>>
    ELSE Append(ToDigits(n \div 10), DigitChr(n % 10))

\* f"{n:02d}" for n >= 0
Fmt02(n) == IF n < 10 THEN <<"0", DigitChr(n)>> ELSE ToDigits(n)

\* f"{hours_rem:02d}:{mins_rem:02d}:{secs_rem:02d}"
FormatTime(r) ==
    Fmt02(HoursRem(r)) \o <<":">> \o Fmt02(MinsRem(r)) \o <<":">> \o Fmt02(SecsRem(r))

\* min(1, remaining), the seconds time.sleep is asked for
SleepFor(r) == Min(1, r)

\* What time.time() may return when the last reading left d units to end_time:
\* any later time.  The readings enumerated are those within MaxNear units of
\* the start or of end_time.
Readings(d) ==
    LET lo == 0 - MaxNear
        early == total_seconds * Res - MaxNear
    IN  (lo..Min(d, MaxNear)) \cup ((IF early < lo THEN lo ELSE early)..d)

\* The readings of a clock that advances by what the loop's own work takes, at
\* most MaxLag units an iteration.
IdealReadings(d) == {d - lag : lag \in 0..MaxLag}

(***************************************************************************)
(* The script, statement by statement.                                     *)
(***************************************************************************)
InitWith(inputs) ==
    /\ pc = "parse_args"
    /\ time_str \in inputs
    /\ parsed = "none"
    /\ total_seconds = 0
    /\ outcome = "None"
    /\ diff = 0
    /\ remaining = 0
    /\ display = << >>
    /\ idx = 0
    /\ attempts = 0
    /\ in_progress = 0
    /\ failed_at = 0
    /\ fail_kind = "none"
    /\ interrupts = 0
    /\ printed = {}
    /\ raised = "none"
    /\ exit_code = -1
    /\ fault = FALSE

Init == InitWith(Inputs)

parseVars == <<time_str, parsed, total_seconds>>
clockVars == <<outcome, diff, remaining, display>>
soundVars == <<idx, attempts, in_progress, failed_at, fail_kind>>
endVars == <<raised, exit_code, fault>>

\* sys.exit(code), or the script running off its end
Exit(code) ==
    /\ pc' = "exit"
    /\ exit_code' = code
    /\ UNCHANGED <<raised, fault>>

\* an exception no handler catches: a traceback and a non-zero status
Unhandled(exc) ==
    /\ pc' = "exit"
    /\ raised' = exc
    /\ exit_code' = 130
    /\ fault' = TRUE

\* parser = argparse.ArgumentParser(...); args = parser.parse_args()
ParseArgs ==
    /\ pc = "parse_args"
    /\ pc' = "parse_time"
    /\ UNCHANGED <<parseVars, clockVars, soundVars, interrupts, printed, endVars>>

\* total_seconds = parse_time(args.duration), returning
ParseTimeOk ==
    /\ pc = "parse_time"
    /\ ParseTime(time_str).ok
    /\ parsed' = "ok"
    /\ total_seconds' = ParseTime(time_str).value
    /\ pc' = "cd_start"
    /\ UNCHANGED <<time_str, clockVars, soundVars, interrupts, printed, endVars>>

\* total_seconds = parse_time(args.duration), raising ValueError
ParseTimeFail ==
    /\ pc = "parse_time"
    /\ ~ParseTime(time_str).ok
    /\ parsed' = "invalid"
    /\ raised' = "ValueError"
    /\ pc' = "report_invalid"
    /\ UNCHANGED <<time_str, total_seconds, clockVars, soundVars, interrupts, printed,
                   exit_code, fault>>

\* except ValueError as e: print, parser.print_usage(), sys.exit(1)
ReportInvalid ==
    /\ pc = "report_invalid"
    /\ printed' = printed \cup {"Error:", "usage:"}
    /\ Exit(1)
    /\ UNCHANGED <<parseVars, clockVars, soundVars, interrupts>>

\* countdown: end_time = time.time() + seconds; print("Timer set for ...")
CountdownStart ==
    /\ pc = "cd_start"
    /\ diff' = total_seconds * Res
    /\ outcome' = "Running"
    /\ printed' = printed \cup {"Timer set for"}
    /\ pc' = "tick"
    /\ UNCHANGED <<parseVars, remaining, display, soundVars, interrupts, endVars>>

\* remaining = round(end_time - time.time()); if remaining <= 0
TickAt(d) ==
    /\ pc = "tick"
    /\ diff' = d
    /\ remaining' = Round(d)
    /\ pc' = IF TimeUp(Round(d)) THEN "timeup" ELSE "render"
    /\ UNCHANGED <<parseVars, outcome, display, soundVars, interrupts, printed, endVars>>

Tick == \E d \in Readings(diff) : TickAt(d)

TickIdeal == \E d \in IdealReadings(diff) : TickAt(d)

\* print("\nTime's up!"); break; and countdown returns
TimeIsUp ==
    /\ pc = "timeup"
    /\ outcome' = "Complete"
    /\ printed' = printed \cup {"Time's up!"}
    /\ pc' = "notify_start"
    /\ UNCHANGED <<parseVars, diff, remaining, display, soundVars, interrupts, endVars>>

\* time_str = f"..."; print(f"Time remaining: {time_str}", end='\r'); flush
Render ==
    /\ pc = "render"
    /\ display' = FormatTime(remaining)
    /\ printed' = printed \cup {"Time remaining:"}
    /\ pc' = "sleep"
    /\ UNCHANGED <<parseVars, outcome, diff, remaining, soundVars, interrupts, endVars>>

\* time.sleep(min(1, remaining)): at least that long passes
Sleep ==
    /\ pc = "sleep"
    /\ diff' = diff - Res * SleepFor(remaining)
    /\ pc' = "tick"
    /\ UNCHANGED <<parseVars, outcome, remaining, display, soundVars, interrupts,
                   printed, endVars>>

\* a slip: the handler prints and returns, without sys.exit(0)
CountdownCancelledNoExit ==
    /\ pc = "cd_cancel"
    /\ printed' = printed \cup {"Timer cancelled by user."}
    /\ pc' = "notify_start"
    /\ UNCHANGED <<parseVars, clockVars, soundVars, interrupts, endVars>>

\* except KeyboardInterrupt: print("\nTimer cancelled by user."); sys.exit(0)
CountdownCancelled ==
    /\ pc = "cd_cancel"
    /\ printed' = printed \cup {"Timer cancelled by user."}
    /\ Exit(0)
    /\ UNCHANGED <<parseVars, clockVars, soundVars, interrupts>>

(***************************************************************************)
(* play_sound_macos                                                        *)
(***************************************************************************)
\* a slip: one iteration too many
LoopDoneOffByOne(i) == i > RepeatCount

\* range(repeat_count) is exhausted
LoopDone(i) == i >= RepeatCount

\* sound_file = ...; print(f"Playing sound ...")
NotifyStart ==
    /\ pc = "notify_start"
    /\ idx' = 0
    /\ printed' = printed \cup {"Playing sound"}
    /\ pc' = "play_loop"
    /\ UNCHANGED <<parseVars, clockVars, attempts, in_progress, failed_at, fail_kind,
                   interrupts, endVars>>

\* for i in range(repeat_count): subprocess.run([...]) is called
PlayNext ==
    /\ pc = "play_loop"
    /\ ~LoopDone(idx)
    /\ attempts' = attempts + 1
    /\ in_progress' = in_progress + 1
    /\ pc' = "playing"
    /\ UNCHANGED <<parseVars, clockVars, idx, failed_at, fail_kind, interrupts, printed,
                   endVars>>

\* the for loop ends
PlayLoopEnd ==
    /\ pc = "play_loop"
    /\ LoopDone(idx)
    /\ pc' = "finished"
    /\ UNCHANGED <<parseVars, clockVars, soundVars, interrupts, printed, endVars>>

\* subprocess.run returns: afplay ended with status 0
PlaybackOk ==
    /\ pc = "playing"
    /\ in_progress' = in_progress - 1
    /\ idx' = idx + 1
    /\ pc' = "play_loop"
    /\ UNCHANGED <<parseVars, clockVars, attempts, failed_at, fail_kind, interrupts,
                   printed, endVars>>

\* subprocess.run raises and the handler prints and breaks: FileNotFoundError
\* ("missing"), CalledProcessError whose stderr decodes ("failed"), any other
\* Exception ("error")
PlaybackBreak(kind) ==
    /\ pc = "playing"
    /\ in_progress' = in_progress - 1
    /\ failed_at' = IF failed_at = 0 THEN attempts ELSE failed_at
    /\ fail_kind' = IF failed_at = 0 THEN kind ELSE fail_kind
    /\ printed' = printed \cup
          {CASE kind = "missing" -> "Error: 'afplay' command not found."
             [] kind = "failed" -> "Error playing sound"
             [] kind = "error" -> "An unexpected error occurred during sound playback"}
    /\ pc' = "finished"
    /\ UNCHANGED <<parseVars, clockVars, idx, attempts, interrupts, endVars>>

PlaybackMissing == PlaybackBreak("missing")

PlaybackFailed == PlaybackBreak("failed")

PlaybackError == PlaybackBreak("error")

\* subprocess.run raises CalledProcessError and e.stderr is not UTF-8:
\* e.stderr.decode() raises UnicodeDecodeError, a ValueError, inside the
\* handler; no except clause of play_sound_macos catches it and the top
\* level's except ValueError does
PlaybackFailedBadStderr ==
    /\ pc = "playing"
    /\ in_progress' = in_progress - 1
    /\ failed_at' = IF failed_at = 0 THEN attempts ELSE failed_at
    /\ fail_kind' = IF failed_at = 0 THEN "failed_bad_stderr" ELSE fail_kind
    /\ printed' = printed \cup {"Error playing sound"}
    /\ raised' = "ValueError"
    /\ pc' = "report_invalid"
    /\ UNCHANGED <<parseVars, clockVars, idx, attempts, interrupts, exit_code, fault>>

\* print("Finished playing sound."); the script ends
Finished ==
    /\ pc = "finished"
    /\ printed' = printed \cup {"Finished playing sound."}
    /\ Exit(0)
    /\ UNCHANGED <<parseVars, clockVars, soundVars, interrupts>>

\* except KeyboardInterrupt: print("\nSound playback interrupted by user."); sys.exit(0)
PlaybackCancelled ==
    /\ pc = "play_cancel"
    /\ printed' = printed \cup {"Sound playback interrupted by user."}
    /\ Exit(0)
    /\ UNCHANGED <<parseVars, clockVars, soundVars, interrupts>>

(***************************************************************************)
(* KeyboardInterrupt, raised in the statement the script is at.            *)
(***************************************************************************)
\* the top level's except KeyboardInterrupt: print, sys.exit(0)
MainCancelled ==
    /\ pc = "main_cancel"
    /\ printed' = printed \cup {"Timer script interrupted by user."}
    /\ Exit(0)
    /\ UNCHANGED <<parseVars, clockVars, soundVars, interrupts>>

\* inside the top level's try but inside no try of countdown or play_sound_macos
InterruptMain ==
    /\ pc \in {"parse_time", "cd_start", "notify_start", "play_loop", "finished"}
    /\ interrupts' = interrupts + 1
    /\ raised' = "KeyboardInterrupt"
    /\ pc' = "main_cancel"
    /\ UNCHANGED <<parseVars, clockVars, soundVars, printed, exit_code, fault>>

\* inside countdown's try
InterruptCountdown ==
    /\ pc \in {"tick", "timeup", "render", "sleep"}
    /\ interrupts' = interrupts + 1
    /\ outcome' = "Cancelled"
    /\ raised' = "KeyboardInterrupt"
    /\ pc' = "cd_cancel"
    /\ UNCHANGED <<parseVars, diff, remaining, display, soundVars, printed, exit_code,
                   fault>>

\* inside play_sound_macos's try: subprocess.run kills afplay and re-raises
InterruptPlayback ==
    /\ pc = "playing"
    /\ interrupts' = interrupts + 1
    /\ in_progress' = in_progress - 1
    /\ raised' = "KeyboardInterrupt"
    /\ pc' = "play_cancel"
    /\ UNCHANGED <<parseVars, clockVars, idx, attempts, failed_at, fail_kind, printed,
                   exit_code, fault>>

\* inside an except clause of countdown or play_sound_macos: the top level's
\* except KeyboardInterrupt catches it
InterruptInHandler ==
    /\ pc \in {"cd_cancel", "play_cancel"}
    /\ interrupts' = interrupts + 1
    /\ raised' = "KeyboardInterrupt"
    /\ pc' = "main_cancel"
    /\ UNCHANGED <<parseVars, clockVars, soundVars, printed, exit_code, fault>>

\* outside the top level's try (argparse) or inside one of its except clauses
InterruptUnhandled ==
    /\ pc \in {"parse_args", "report_invalid", "main_cancel"}
    /\ interrupts' = interrupts + 1
    /\ Unhandled("KeyboardInterrupt")
    /\ UNCHANGED <<parseVars, clockVars, soundVars, printed>>

Interrupt ==
    \/ InterruptMain
    \/ InterruptCountdown
    \/ InterruptPlayback
    \/ InterruptInHandler
    \/ InterruptUnhandled

Countdown ==
    \/ CountdownStart
    \/ TimeIsUp
    \/ Render
    \/ Sleep

Notifier ==
    \/ NotifyStart
    \/ PlayNext
    \/ PlayLoopEnd
    \/ PlaybackOk
    \/ PlaybackMissing
    \/ PlaybackFailed
    \/ PlaybackError
    \/ PlaybackFailedBadStderr
    \/ Finished

Next ==
    \/ ParseArgs
    \/ ParseTimeOk
    \/ ParseTimeFail
    \/ ReportInvalid
    \/ Countdown
    \/ Tick
    \/ CountdownCancelled
    \/ Notifier
    \/ PlaybackCancelled
    \/ MainCancelled
    \/ Interrupt

Spec == Init /\ [][Next]_vars

(***************************************************************************)
(* The countdown alone, never interrupted, under a clock that advances by   *)
(* the time slept and by at most MaxLag units of work an iteration.  The    *)
(* script is one thread that runs on: every enabled step is taken.          *)
(***************************************************************************)
InitIdeal == InitWith(IdealInputs)

NextIdeal ==
    \/ ParseArgs
    \/ ParseTimeOk
    \/ Countdown
    \/ TickIdeal

SpecIdeal == InitIdeal /\ [][NextIdeal]_vars /\ WF_vars(NextIdeal)

(***************************************************************************)
(* The documented duration grammar, stated without the regular expression: *)
(* a string splits into an hours part, a minutes part and a seconds part,  *)
(* each empty or a run of decimal digits followed by its unit letter.      *)
(***************************************************************************)
RECURSIVE Pow10(_)
Pow10(n) == IF n = 0 THEN 1 ELSE 10 * Pow10(n - 1)

\* the number a run of decimal digits writes, digit by place value
RECURSIVE PlaceValue(_, _)
PlaceValue(digits, k) ==
    IF k > Len(digits) THEN 0
    ELSE DigitVal(digits[k]) * Pow10(Len(digits) - k) + PlaceValue(digits, k + 1)

IsPart(part, unit) ==
    \/ part = << >>
    \/ /\ Len(part) >= 2
       /\ part[Len(part)] = unit
       /\ \A k \in 1..(Len(part) - 1) : part[k] \in DigitChars

PartValue(part) ==
    IF part = << >> THEN 0 ELSE PlaceValue(SubSeq(part, 1, Len(part) - 1), 1)

\* the ways str splits into <<hours part, minutes part, seconds part>>
Splits(str) ==
    {sp \in {<<SubSeq(str, 1, i), SubSeq(str, i + 1, j), SubSeq(str, j + 1, Len(str))>> :
                i \in 0..Len(str), j \in 0..Len(str)} :
        /\ sp[1] \o sp[2] \o sp[3] = str
        /\ IsPart(sp[1], "h") /\ IsPart(sp[2], "m") /\ IsPart(sp[3], "s")}

GrammarTotal(sp) == PartValue(sp[1]) * 3600 + PartValue(sp[2]) * 60 + PartValue(sp[3])

\* str is in the grammar and its total is positive
ValidDuration(str) ==
    /\ str # << >>
    /\ \E sp \in Splits(str) : GrammarTotal(sp) > 0

(***************************************************************************)
(* C1: for every duration string made of an hours, a minutes and a seconds *)
(* part in that order (any non-empty subset, each a decimal integer and    *)
(* its unit letter) whose total is positive, parse_time does not raise and *)
(* returns hours*3600 + minutes*60 + seconds; the four documented examples *)
(* give 5410, 5400, 180 and 7200.                                          *)
(***************************************************************************)
C1_ParseValue ==
    /\ ValidDuration(time_str) =>
          /\ parsed # "invalid"
          /\ parsed = "ok" =>
                \A sp \in Splits(time_str) : total_seconds = GrammarTotal(sp)
    /\ parsed # "none" /\ time_str = <<"1", "h", "3", "0", "m", "1", "0", "s">> =>
          parsed = "ok" /\ total_seconds = 5410
    /\ parsed # "none" /\ time_str = <<"9", "0", "m">> =>
          parsed = "ok" /\ total_seconds = 5400
    /\ parsed # "none" /\ time_str = <<"1", "8", "0", "s">> =>
          parsed = "ok" /\ total_seconds = 180
    /\ parsed # "none" /\ time_str = <<"2", "h">> =>
          parsed = "ok" /\ total_seconds = 7200

C1_Witness ==
    /\ parsed = "ok"
    /\ time_str = <<"1", "h", "3", "0", "m", "1", "0", "s">>
    /\ total_seconds = 5410

(***************************************************************************)
(* C2: parse_time raises for every string outside the grammar or with a    *)
(* non-positive total - the empty string, unknown suffixes, non-digit      *)
(* values, parts out of order, whitespace or separators, all-zero strings  *)
(* - and whenever it returns, the result is at least 1.                    *)
(***************************************************************************)
C2_RejectsInvalid ==
    /\ parsed = "ok" => total_seconds >= 1
    /\ ~ValidDuration(time_str) => parsed # "ok"

(***************************************************************************)
(* C3: an interrupt delivered while the countdown loop is Running ends the *)
(* countdown in Cancelled, which it never leaves; a cancelled run makes no *)
(* playback attempt and, no further interrupt arriving, exits with status  *)
(* 0.  In every run a playback attempt is made only after the countdown    *)
(* reached Complete.                                                       *)
(***************************************************************************)
C3_State ==
    /\ outcome = "Cancelled" => attempts = 0 /\ in_progress = 0
    /\ attempts > 0 => outcome = "Complete"
    /\ pc = "exit" /\ outcome = "Cancelled" /\ interrupts = 1 =>
          exit_code = 0 /\ ~fault

C3_Step ==
    /\ outcome = "Running" /\ interrupts' > interrupts => outcome' = "Cancelled"
    /\ outcome = "Cancelled" => outcome' = "Cancelled"
    /\ outcome = "Complete" => outcome' = "Complete"

C3_CancelSkipsNotifier == []C3_State /\ [][C3_Step]_vars

C3_Witness ==
    /\ pc = "exit"
    /\ outcome = "Cancelled"
    /\ interrupts = 1
    /\ exit_code = 0
    /\ attempts = 0
    /\ "Timer cancelled by user." \in printed

(***************************************************************************)
(* C4: when every playback succeeds and no interrupt occurs, the notifier  *)
(* starts playback exactly repeat_count times, one after another: an       *)
(* attempt starts only when none is in progress, so at most one playback   *)
(* is in progress at any moment.                                           *)
(***************************************************************************)
C4_State ==
    /\ in_progress \in {0, 1}
    /\ attempts <= RepeatCount
    /\ (pc \in {"finished", "exit"} /\ outcome = "Complete" /\ failed_at = 0
           /\ interrupts = 0) => attempts = RepeatCount

C4_Step ==
    attempts' # attempts => attempts' = attempts + 1 /\ in_progress = 0

C4_SequentialPlayback == []C4_State /\ [][C4_Step]_vars

C4_Witness ==
    /\ pc = "exit"
    /\ attempts = 10
    /\ failed_at = 0
    /\ interrupts = 0
    /\ exit_code = 0

(***************************************************************************)
(* C5: if the k-th playback attempt fails, because the command is missing  *)
(* or because it returns a non-zero status, exactly k attempts are made,   *)
(* no error leaves play_sound_macos and the process exits with status 0.   *)
(***************************************************************************)
C5_FailFast ==
    failed_at > 0 /\ interrupts = 0 =>
        /\ attempts = failed_at
        /\ raised = "none"
        /\ pc = "exit" => exit_code = 0 /\ ~fault

(***************************************************************************)
(* C6: an interrupt delivered at any point of the run ends it with a       *)
(* cancellation message and exit status 0, never with a non-zero status or *)
(* an unhandled exception.                                                 *)
(***************************************************************************)
CancelMessages ==
    {"Timer cancelled by user.", "Sound playback interrupted by user.",
     "Timer script interrupted by user."}

C6_InterruptExitsZero ==
    pc = "exit" /\ interrupts >= 1 =>
        /\ exit_code = 0
        /\ ~fault
        /\ printed \cap CancelMessages # {}

(***************************************************************************)
(* C7: an invalid duration is reported with the error and the usage line   *)
(* and ends the run with a non-zero status before any countdown or         *)
(* playback; and the invalid-format report and exit come only from the     *)
(* duration parser, never from the countdown or the notifier.              *)
(***************************************************************************)
C7_InvalidOnlyFromParser ==
    /\ parsed = "invalid" =>
          /\ outcome = "None"
          /\ attempts = 0
          /\ pc = "exit" /\ interrupts = 0 =>
                exit_code = 1 /\ {"Error:", "usage:"} \subseteq printed
    /\ pc = "report_invalid" \/ "usage:" \in printed => parsed = "invalid"

(***************************************************************************)
(* C8 as stated: the loop never reaches Complete while the current time is *)
(* still before end_time.                                                  *)
(***************************************************************************)
C8_NeverEarly == outcome = "Complete" => diff <= 0

(***************************************************************************)
(* C8 amended: the loop never reaches Complete while the current time is   *)
(* more than half a second before end_time, and it does reach Complete up  *)
(* to half a second early.                                                 *)
(***************************************************************************)
C8_AtMostHalfSecondEarly ==
    /\ outcome = "Complete" => 2 * diff <= Res
    /\ pc = "timeup" => 2 * diff <= Res

C8_Witness == outcome = "Complete" /\ diff > 0 /\ 2 * diff = Res

(***************************************************************************)
(* C9: an uninterrupted countdown of N >= 1 seconds, under a clock that    *)
(* advances and sleeps that last the time asked for, ends in Complete, no  *)
(* more than one second before or after N seconds from its start, and      *)
(* never in Cancelled.                                                     *)
(***************************************************************************)
Abs(a) == IF a < 0 THEN 0 - a ELSE a

C9_State ==
    /\ outcome # "Cancelled"
    /\ pc # "cd_cancel"
    /\ outcome = "Complete" => Abs(diff) <= Res

C9_CompletesOnTime == <>(outcome = "Complete") /\ []C9_State

C9_Witness ==
    /\ outcome = "Complete"
    /\ total_seconds >= 2
    /\ diff < 0
    /\ interrupts = 0

(***************************************************************************)
(* C10: a tick with remaining >= 1 renders HH:MM:SS with HH = remaining    *)
(* div 3600 (not wrapped at 24), MM = (remaining mod 3600) div 60 and SS = *)
(* remaining mod 60, both in 0..59, so that HH*3600 + MM*60 + SS =         *)
(* remaining; a tick with remaining <= 0 renders nothing and ends the      *)
(* loop.                                                                   *)
(***************************************************************************)
Colons(str) == {k \in 1..Len(str) : str[k] = ":"}

\* the three numbers a rendered HH:MM:SS writes; <<-1, -1, -1>> if it is no such text
Fields(str) ==
    IF Cardinality(Colons(str)) # 2 THEN <<-1, -1, -1>>
    ELSE LET p1 == CHOOSE k \in Colons(str) : \A l \in Colons(str) : k <= l
             p2 == CHOOSE k \in Colons(str) : k # p1
             hh == SubSeq(str, 1, p1 - 1)
             mm == SubSeq(str, p1 + 1, p2 - 1)
             ss == SubSeq(str, p2 + 1, Len(str))
         IN  IF /\ Len(hh) >= 2 /\ Len(mm) = 2 /\ Len(ss) = 2
                /\ \A k \in 1..Len(str) : k \in Colons(str) \/ str[k] \in DigitChars
             THEN <<PlaceValue(hh, 1), PlaceValue(mm, 1), PlaceValue(ss, 1)>>
             ELSE <<-1, -1, -1>>

C10_State ==
    /\ pc \in {"render", "sleep"} => remaining >= 1
    /\ pc = "sleep" =>
          LET f == Fields(display)
          IN  /\ f[1] = remaining \div 3600
              /\ f[2] = (remaining % 3600) \div 60
              /\ f[3] = remaining % 60
              /\ f[2] \in 0..59 /\ f[3] \in 0..59
              /\ f[1] * 3600 + f[2] * 60 + f[3] = remaining
    /\ pc = "timeup" => remaining <= 0

C10_Step ==
    /\ pc = "tick" /\ pc' \notin {"tick", "cd_cancel"} =>
          /\ remaining' >= 1 => pc' = "render" /\ display' = display
          /\ remaining' <= 0 => pc' = "timeup" /\ display' = display
    /\ pc = "timeup" /\ pc' # "cd_cancel" =>
          outcome' = "Complete" /\ display' = display /\ pc' = "notify_start"
    /\ pc = "render" /\ pc' # "cd_cancel" => pc' = "sleep"

C10_RenderedTime == []C10_State /\ [][C10_Step]_vars

C10_Witness ==
    /\ pc = "sleep"
    /\ remaining >= 24 * 3600
    /\ display = <<"2", "5", ":", "0", "0", ":", "0", "0">>

====
